---- MODULE Spec2Model ----
(***************************************************************************)
(* Model of the Encrypt handler of the GPG secrets plugin                  *)
(* (gpg/path_encrypt.go, backend.pathEncryptWrite).                        *)
(*                                                                         *)
(* Every request owns a frame holding the handler's local variables and    *)
(* its position in the handler.  One action models one statement group of  *)
(* the handler; calls that can fail outside the handler's control (the     *)
(* storage read, the library's writers) take their success from the        *)
(* environment.                                                            *)
(***************************************************************************)
EXTENDS Naturals, Sequences, FiniteSets, TLC

VARIABLES frame, storage, crashed

vars == <<frame, storage, crashed>>

(***************************************************************************)
(* Bounds of the model.                                                    *)
(***************************************************************************)
\* the longest packet sequence of a recipient keyring
MaxPackets == 2
\* the number of requests in flight in the concurrent specification
MaxReqs == 2

Reqs == 1..MaxReqs

(***************************************************************************)
(* Field values.  A field of the request is either absent or present with  *)
(* a value.                                                                *)
(***************************************************************************)
Absent == [present |-> FALSE, val |-> ""]
Present(v) == [present |-> TRUE, val |-> v]

\* The text of a recipient_key: block is "" for the empty string, "none" for
\* text holding no armored block, otherwise the type of the armored block;
\* packets is the packet sequence of the block's body, one token per key
\* ("bad" is a key the parser reports unsupported and skips).
Text(block, packets) == [block |-> block, packets |-> packets]
EmptyText == Text("", <<>>)

KeyTokens == {"carol", "dave", "bad"}

RECURSIVE SeqsUpTo(_, _)
SeqsUpTo(S, n) ==
  IF n = 0 THEN {<<>>}
  ELSE LET shorter == SeqsUpTo(S, n - 1)
       IN  shorter \cup {Append(s, x) : s \in {t \in shorter : Len(t) = n - 1}, x \in S}

RecipientTexts ==
  {EmptyText, Text("none", <<>>), Text("PGP MESSAGE", <<"carol">>)}
    \cup {Text("PGP PUBLIC KEY BLOCK", p) : p \in SeqsUpTo(KeyTokens, MaxPackets)}

AlgorithmNames == {"sha2-224", "sha2-256", "sha2-384", "sha2-512"}

(***************************************************************************)
(* The field schema: data.Get returns the supplied value, else the         *)
(* schema's default, else the zero value of the type.                      *)
(***************************************************************************)
FieldDefault(field) ==
  CASE field = "algorithm" -> "sha2-256"
    [] field = "format" -> "base64"
    [] field = "recipient_key" -> EmptyText
    [] OTHER -> ""

Get(data, field) ==
  IF data[field].present THEN data[field].val ELSE FieldDefault(field)

(***************************************************************************)
(* base64.StdEncoding.DecodeString on the plaintexts of the model.         *)
(***************************************************************************)
B64Table == ("" :> "") @@ ("aGVsbG8=" :> "hello") @@ ("aGk=" :> "hi")

DecodeString(s) ==
  IF s \in DOMAIN B64Table
  THEN [val |-> B64Table[s], err |-> "nil"]
  ELSE [val |-> "", err |-> "illegal base64 data"]

(***************************************************************************)
(* Responses.                                                              *)
(***************************************************************************)
NilResp == [isError |-> FALSE, data |-> <<>>, nil |-> TRUE]
ErrorResponse(msg) == [isError |-> TRUE, data |-> msg, nil |-> FALSE]
DataResponse(ciphertext) == [isError |-> FALSE, data |-> ciphertext, nil |-> FALSE]

ErrInvalidRequest == "invalid request"

NoRet == [kind |-> "none", resp |-> NilResp, err |-> "nil"]
Return(resp, err) == [kind |-> "returned", resp |-> resp, err |-> err]
PanicRet == [kind |-> "panicked", resp |-> NilResp, err |-> "index out of range [0] with length 0"]
AbortedRet == [kind |-> "aborted", resp |-> NilResp, err |-> "process exited"]

(***************************************************************************)
(* The frame of a request: the handler's locals, its position (pc), its    *)
(* return value and the calls it has made so far (log).                    *)
(***************************************************************************)
NoData ==
  [name |-> Absent, plaintext |-> Absent, urlalgorithm |-> Absent,
   algorithm |-> Absent, format |-> Absent, recipient_key |-> Absent]

NoEntry == [nil |-> TRUE, key |-> "", malformed |-> FALSE]
NoEntity == [nil |-> TRUE, id |-> ""]
NoWriter == [state |-> "nil", kind |-> "", pending |-> <<>>, meta |-> <<>>]

IdleFrame ==
  [pc |-> "idle", data |-> NoData, plaintext |-> "", err |-> "nil",
   config |-> "0", algorithm |-> "", format |-> "", recipientKey |-> EmptyText,
   el |-> <<>>, recipientKeyList |-> <<>>, entry |-> NoEntry, entity |-> NoEntity,
   ciphertext |-> <<>>, ciphertextEncoder |-> NoWriter, w |-> NoWriter,
   ret |-> NoRet, log |-> <<>>]

Logged(fr, call) == [fr EXCEPT !.log = Append(@, call)]

Goto(fr, pc) == [fr EXCEPT !.pc = pc]

Done(fr, resp, err) == [fr EXCEPT !.pc = "done", !.ret = Return(resp, err)]

(***************************************************************************)
(* The statements of pathEncryptWrite, in order.  Each operator maps the   *)
(* frame before a statement group to the frame after it.                   *)
(***************************************************************************)

\* plaintext, err := base64.StdEncoding.DecodeString(plaintextB64)
DecodePlaintext(fr) ==
  LET d == DecodeString(Get(fr.data, "plaintext"))
      f1 == Logged([fr EXCEPT !.plaintext = d.val, !.err = d.err], "DecodeString")
  IN  IF d.err # "nil"
      THEN Done(f1, ErrorResponse(<<"unable to decode plaintext as base64", d.err>>),
                ErrInvalidRequest)
      ELSE Goto(f1, "algorithm")

\* ResolveAlgorithm without the return of the default case
ResolveAlgorithm_NoDefault(fr) ==
  LET url == Get(fr.data, "urlalgorithm")
      algorithm == IF url = "" THEN Get(fr.data, "algorithm") ELSE url
      f1 == Logged([fr EXCEPT !.algorithm = algorithm, !.config = "0"], "switch algorithm")
  IN  CASE algorithm = "sha2-224" -> Goto([f1 EXCEPT !.config = "SHA224"], "format")
        [] algorithm = "sha2-256" -> Goto([f1 EXCEPT !.config = "SHA256"], "format")
        [] algorithm = "sha2-384" -> Goto([f1 EXCEPT !.config = "SHA384"], "format")
        [] algorithm = "sha2-512" -> Goto([f1 EXCEPT !.config = "SHA512"], "format")
        [] OTHER -> Goto(f1, "format")

\* ResolveAlgorithm with the body parameter taking precedence over the URL
ResolveAlgorithm_BodyFirst(fr) ==
  LET body == Get(fr.data, "algorithm")
      algorithm == IF body = "" THEN Get(fr.data, "urlalgorithm") ELSE body
      f1 == Logged([fr EXCEPT !.algorithm = algorithm, !.config = "0"], "switch algorithm")
  IN  CASE algorithm = "sha2-224" -> Goto([f1 EXCEPT !.config = "SHA224"], "format")
        [] algorithm = "sha2-256" -> Goto([f1 EXCEPT !.config = "SHA256"], "format")
        [] algorithm = "sha2-384" -> Goto([f1 EXCEPT !.config = "SHA384"], "format")
        [] algorithm = "sha2-512" -> Goto([f1 EXCEPT !.config = "SHA512"], "format")
        [] OTHER -> Done(f1, ErrorResponse(<<"unsupported algorithm", algorithm>>), "nil")

\* config := packet.Config{}; the algorithm switch
ResolveAlgorithm(fr) ==
  LET url == Get(fr.data, "urlalgorithm")
      algorithm == IF url = "" THEN Get(fr.data, "algorithm") ELSE url
      f1 == Logged([fr EXCEPT !.algorithm = algorithm, !.config = "0"], "switch algorithm")
  IN  CASE algorithm = "sha2-224" -> Goto([f1 EXCEPT !.config = "SHA224"], "format")
        [] algorithm = "sha2-256" -> Goto([f1 EXCEPT !.config = "SHA256"], "format")
        [] algorithm = "sha2-384" -> Goto([f1 EXCEPT !.config = "SHA384"], "format")
        [] algorithm = "sha2-512" -> Goto([f1 EXCEPT !.config = "SHA512"], "format")
        [] OTHER -> Done(f1, ErrorResponse(<<"unsupported algorithm", algorithm>>), "nil")

\* CheckFormat without the return of the default case
CheckFormat_NoDefault(fr) ==
  Goto(Logged([fr EXCEPT !.format = Get(fr.data, "format")], "switch format"), "recipient")

\* the format switch
CheckFormat(fr) ==
  LET format == Get(fr.data, "format")
      f1 == Logged([fr EXCEPT !.format = format], "switch format")
  IN  CASE format = "base64" -> Goto(f1, "recipient")
        [] format = "ascii-armor" -> Goto(f1, "recipient")
        [] OTHER -> Done(f1, ErrorResponse(<<"unsupported encoding format", format>>), "nil")

\* CheckRecipientKey without the empty check
CheckRecipientKey_NoEmptyCheck(fr) ==
  Goto(Logged([fr EXCEPT !.recipientKey = Get(fr.data, "recipient_key")], "recipient_key"),
       "parse")

\* recipientKey := data.Get("recipient_key"); the empty check
CheckRecipientKey(fr) ==
  LET recipientKey == Get(fr.data, "recipient_key")
      f1 == Logged([fr EXCEPT !.recipientKey = recipientKey], "recipient_key")
  IN  IF recipientKey = EmptyText
      THEN Done(f1, ErrorResponse(<<"recipient_key not exist">>), ErrInvalidRequest)
      ELSE Goto(f1, "parse")

\* openpgp.ReadArmoredKeyRing: a text without an armored block, or with a
\* block of another type, is an error; unsupported keys are skipped, and
\* their error is reported only when no key is left; a block without any
\* packet yields an empty list and no error.
ReadArmoredKeyRing(text) ==
  LET IsKey(p) == p # "bad"
      el == SelectSeq(text.packets, IsKey)
  IN  CASE text.block \in {"", "none"} ->
             [el |-> <<>>, err |-> "no armored data found"]
        [] text.block \notin {"PGP PUBLIC KEY BLOCK", "PGP PRIVATE KEY BLOCK"} ->
             [el |-> <<>>, err |-> "expected public or private key block"]
        [] OTHER ->
             [el |-> el,
              err |-> IF el = <<>> /\ text.packets # <<>>
                      THEN "unsupported feature" ELSE "nil"]

\* el, err := openpgp.ReadArmoredKeyRing(strings.NewReader(recipientKey))
ParseKeyRing(fr) ==
  LET r == ReadArmoredKeyRing(fr.recipientKey)
      f1 == Logged([fr EXCEPT !.el = r.el, !.err = r.err], "ReadArmoredKeyRing")
  IN  IF r.err # "nil"
      THEN Done(f1, ErrorResponse(<<r.err>>), ErrInvalidRequest)
      ELSE Goto(f1, "select")

\* recipientKeyList := []*openpgp.Entity{el[0]}, and the check of err after it
SelectRecipient(fr) ==
  LET f1 == Logged(fr, "el[0]")
  IN  IF Len(fr.el) = 0
      THEN Goto(f1, "panic")
      ELSE LET f2 == [f1 EXCEPT !.recipientKeyList = <<fr.el[1]>>]
           IN  IF f2.err # "nil" THEN Done(f2, NilResp, f2.err) ELSE Goto(f2, "key")

\* b.key: the stored record of the name, nil when there is none, an error
\* when the storage read fails
key(store, name, ioOk) ==
  CASE ~ioOk -> [entry |-> NoEntry, err |-> "storage unavailable"]
    [] name \in DOMAIN store -> [entry |-> store[name], err |-> "nil"]
    [] OTHER -> [entry |-> NoEntry, err |-> "nil"]

\* LookupKey testing the entry for nil before the error
LookupKey_NilFirst(fr, store, ioOk) ==
  LET r == key(store, Get(fr.data, "name"), ioOk)
      f1 == Logged([fr EXCEPT !.entry = r.entry, !.err = r.err], "key")
  IN  CASE r.entry.nil -> Done(f1, ErrorResponse(<<"key not found">>), ErrInvalidRequest)
        [] r.err # "nil" -> Done(f1, NilResp, r.err)
        [] OTHER -> Goto(f1, "entity")

\* entry, err := b.key(ctx, req.Storage, data.Get("name"))
LookupKey(fr, store, ioOk) ==
  LET r == key(store, Get(fr.data, "name"), ioOk)
      f1 == Logged([fr EXCEPT !.entry = r.entry, !.err = r.err], "key")
  IN  CASE r.err # "nil" -> Done(f1, NilResp, r.err)
        [] r.entry.nil -> Done(f1, ErrorResponse(<<"key not found">>), ErrInvalidRequest)
        [] OTHER -> Goto(f1, "entity")

\* b.entity: the entity of a stored record; a malformed record is an error
entity(entry) ==
  IF entry.malformed
  THEN [entity |-> NoEntity, err |-> "key corrupt"]
  ELSE [entity |-> [nil |-> FALSE, id |-> entry.key], err |-> "nil"]

\* entity, err := b.entity(entry)
DeriveEntity(fr) ==
  LET r == entity(fr.entry)
      f1 == Logged([fr EXCEPT !.entity = r.entity, !.err = r.err], "entity")
  IN  IF r.err # "nil" THEN Done(f1, NilResp, r.err) ELSE Goto(f1, "encoder")

(***************************************************************************)
(* The writers.  An encoder passes on what it is given except the last     *)
(* chunk, which it holds until the next write or its Close; armor writes   *)
(* its header when created and its footer when closed.  The cryptographic  *)
(* writer writes the session key packet when created, holds the data it is *)
(* given and writes data and signature when closed.                        *)
(***************************************************************************)
ArmorHeader == <<"-----BEGIN PGP MESSAGE-----">>
ArmorFooter == <<"-----END PGP MESSAGE-----">>

\* chunks written through the encoder of the frame
EncoderWrite(fr, chunks) ==
  IF chunks = <<>> THEN fr
  ELSE LET all == fr.ciphertextEncoder.pending \o chunks
       IN  [fr EXCEPT !.ciphertext = @ \o SubSeq(all, 1, Len(all) - 1),
                      !.ciphertextEncoder.pending = <<all[Len(all)]>>]

\* the ciphertext buffer and the encoder over it
NewEncoder(fr, ok) ==
  LET f0 == [fr EXCEPT !.ciphertext = <<>>]
  IN  CASE fr.format = "ascii-armor" ->
             LET f1 == Logged(f0, "armor.Encode")
             IN  IF ~ok
                 THEN Done([f1 EXCEPT !.err = "armor"], NilResp, "armor")
                 ELSE Goto([f1 EXCEPT !.ciphertext = <<ArmorHeader>>,
                                      !.ciphertextEncoder =
                                         [state |-> "open", kind |-> "armor",
                                          pending |-> <<>>, meta |-> <<>>]],
                           "encrypt")
        [] fr.format = "base64" ->
             Goto([Logged(f0, "base64.NewEncoder") EXCEPT
                     !.ciphertextEncoder = [state |-> "open", kind |-> "base64",
                                            pending |-> <<>>, meta |-> <<>>]],
                  "encrypt")
        [] OTHER -> Goto(f0, "encrypt")

\* w, err := openpgp.Encrypt(ciphertextEncoder, recipientKeyList, entity, nil, &config)
Encrypt(fr, ok) ==
  LET f1 == Logged(fr, "openpgp.Encrypt")
  IN  IF ~ok
      THEN Done([f1 EXCEPT !.err = "encrypt"], NilResp, "encrypt")
      ELSE Goto(EncoderWrite([f1 EXCEPT !.err = "nil",
                                         !.w = [state |-> "open", kind |-> "pgp",
                                                pending |-> <<>>,
                                                meta |-> <<fr.entity.id, fr.config>>]],
                             <<<<"pkesk", fr.recipientKeyList[1]>>>>),
                "write")

\* _, err = w.Write([]byte(plaintext))
WritePlaintext(fr, ok) ==
  LET f1 == Logged(fr, "w.Write")
  IN  IF ~ok
      THEN Done([f1 EXCEPT !.err = "write"], NilResp, "write")
      ELSE Goto([f1 EXCEPT !.err = "nil",
                           !.w.pending = Append(@, <<"data", fr.plaintext>>)],
                "closeW")

\* CloseW followed by the read of the buffer, the encoder being closed later
CloseW_ThenRead(fr, ok) ==
  LET f1 == Logged(fr, "w.Close")
  IN  IF ~ok
      THEN Done([f1 EXCEPT !.err = "close w"], NilResp, "close w")
      ELSE Goto(EncoderWrite([f1 EXCEPT !.err = "nil", !.w.state = "closed",
                                         !.w.pending = <<>>],
                             fr.w.pending \o <<<<"sig", fr.w.meta[1], fr.w.meta[2]>>>>),
                "respond")

\* err = w.Close()
CloseW(fr, ok) ==
  LET f1 == Logged(fr, "w.Close")
  IN  IF ~ok
      THEN Done([f1 EXCEPT !.err = "close w"], NilResp, "close w")
      ELSE Goto(EncoderWrite([f1 EXCEPT !.err = "nil", !.w.state = "closed",
                                         !.w.pending = <<>>],
                             fr.w.pending \o <<<<"sig", fr.w.meta[1], fr.w.meta[2]>>>>),
                "closeEncoder")

\* CloseEncoder with its error left unchecked
CloseEncoder_ErrIgnored(fr, ok) ==
  LET f1 == Logged(fr, "ciphertextEncoder.Close")
      tail == IF fr.ciphertextEncoder.kind = "armor" THEN <<ArmorFooter>> ELSE <<>>
  IN  Goto([f1 EXCEPT !.err = IF ok THEN "nil" ELSE "close encoder",
                      !.ciphertext = @ \o fr.ciphertextEncoder.pending \o tail,
                      !.ciphertextEncoder.state = "closed",
                      !.ciphertextEncoder.pending = <<>>],
           "respond")

\* err = ciphertextEncoder.Close()
CloseEncoder(fr, ok) ==
  LET f1 == Logged(fr, "ciphertextEncoder.Close")
      tail == IF fr.ciphertextEncoder.kind = "armor" THEN <<ArmorFooter>> ELSE <<>>
  IN  IF ~ok
      THEN Done([f1 EXCEPT !.err = "close encoder"], NilResp, "close encoder")
      ELSE Goto([f1 EXCEPT !.err = "nil",
                           !.ciphertext = @ \o fr.ciphertextEncoder.pending \o tail,
                           !.ciphertextEncoder.state = "closed",
                           !.ciphertextEncoder.pending = <<>>],
                "respond")

\* return &logical.Response{Data: {"ciphertext": ciphertext.String()}}, nil
Respond(fr) ==
  Done(Logged(fr, "ciphertext.String"), DataResponse(fr.ciphertext), "nil")

(***************************************************************************)
(* The requests of the model.                                              *)
(***************************************************************************)
Optional(S) == {Absent} \cup {Present(v) : v \in S}

Requests ==
  [name : {Present(n) : n \in {"alice", "mallory", "nobody"}},
   plaintext : Optional({"aGVsbG8=", "aGVsbG8"}),
   urlalgorithm : Optional({""} \cup AlgorithmNames \cup {"md5"}),
   algorithm : Optional({""} \cup AlgorithmNames \cup {"md5"}),
   format : Optional({"base64", "ascii-armor", "hex"}),
   recipient_key : Optional(RecipientTexts)]

\* the requests sent concurrently
Request(name, plaintext, urlalgorithm, algorithm, format, recipient_key) ==
  [name |-> Present(name), plaintext |-> Present(plaintext),
   urlalgorithm |-> urlalgorithm, algorithm |-> algorithm,
   format |-> format, recipient_key |-> Present(recipient_key)]

ConcurrentRequests ==
  {Request("alice", "aGVsbG8=", Present("sha2-224"), Present("sha2-512"), Absent,
           Text("PGP PUBLIC KEY BLOCK", <<"carol">>)),
   Request("bob", "aGk=", Absent, Present("sha2-512"), Present("ascii-armor"),
           Text("PGP PUBLIC KEY BLOCK", <<"dave", "carol">>)),
   Request("bob", "aGk=", Absent, Absent, Present("base64"),
           Text("PGP PUBLIC KEY BLOCK", <<>>)),
   Request("mallory", "aGVsbG8=", Present("md5"), Absent, Present("hex"),
           Text("none", <<>>)),
   Request("nobody", "aGk=", Absent, Present("sha2-384"), Present("ascii-armor"),
           Text("PGP PUBLIC KEY BLOCK", <<"bad", "dave">>))}

\* the stored key records: alice and bob hold usable keys, the record of
\* mallory is malformed, nobody has no record
InitStorage ==
  ("alice" :> [nil |-> FALSE, key |-> "alice", malformed |-> FALSE])
    @@ ("bob" :> [nil |-> FALSE, key |-> "bob", malformed |-> FALSE])
    @@ ("mallory" :> [nil |-> FALSE, key |-> "mallory", malformed |-> TRUE])

(***************************************************************************)
(* The state machine.                                                      *)
(***************************************************************************)
Init ==
  /\ frame = [r \in Reqs |-> IdleFrame]
  /\ storage = InitStorage
  /\ crashed = FALSE

\* request r is at position pc of the handler
At(r, pc) == ~crashed /\ frame[r].pc = pc

\* the frames with the frame of request r replaced
Put(r, next) == [frame EXCEPT ![r] = next]

\* the host calls the handler with the parsed fields of a request
Dispatch(r, requests) ==
  /\ At(r, "idle")
  /\ \E data \in requests :
       frame' = Put(r, [IdleFrame EXCEPT !.pc = "decode", !.data = data])
  /\ UNCHANGED <<storage, crashed>>

DoDecodePlaintext(r) ==
  /\ At(r, "decode")
  /\ frame' = Put(r, DecodePlaintext(frame[r]))
  /\ UNCHANGED <<storage, crashed>>

DoResolveAlgorithm(r) ==
  /\ At(r, "algorithm")
  /\ frame' = Put(r, ResolveAlgorithm(frame[r]))
  /\ UNCHANGED <<storage, crashed>>

DoCheckFormat(r) ==
  /\ At(r, "format")
  /\ frame' = Put(r, CheckFormat(frame[r]))
  /\ UNCHANGED <<storage, crashed>>

DoCheckRecipientKey(r) ==
  /\ At(r, "recipient")
  /\ frame' = Put(r, CheckRecipientKey(frame[r]))
  /\ UNCHANGED <<storage, crashed>>

DoParseKeyRing(r) ==
  /\ At(r, "parse")
  /\ frame' = Put(r, ParseKeyRing(frame[r]))
  /\ UNCHANGED <<storage, crashed>>

DoSelectRecipient(r) ==
  /\ At(r, "select")
  /\ frame' = Put(r, SelectRecipient(frame[r]))
  /\ UNCHANGED <<storage, crashed>>

DoLookupKey(r) ==
  /\ At(r, "key")
  /\ \E ioOk \in BOOLEAN :
       frame' = Put(r, LookupKey(frame[r], storage, ioOk))
  /\ UNCHANGED <<storage, crashed>>

DoDeriveEntity(r) ==
  /\ At(r, "entity")
  /\ frame' = Put(r, DeriveEntity(frame[r]))
  /\ UNCHANGED <<storage, crashed>>

DoNewEncoder(r) ==
  /\ At(r, "encoder")
  /\ \E ok \in BOOLEAN :
       frame' = Put(r, NewEncoder(frame[r], ok))
  /\ UNCHANGED <<storage, crashed>>

DoEncrypt(r) ==
  /\ At(r, "encrypt")
  /\ \E ok \in BOOLEAN :
       frame' = Put(r, Encrypt(frame[r], ok))
  /\ UNCHANGED <<storage, crashed>>

DoWritePlaintext(r) ==
  /\ At(r, "write")
  /\ \E ok \in BOOLEAN :
       frame' = Put(r, WritePlaintext(frame[r], ok))
  /\ UNCHANGED <<storage, crashed>>

DoCloseW(r) ==
  /\ At(r, "closeW")
  /\ \E ok \in BOOLEAN :
       frame' = Put(r, CloseW(frame[r], ok))
  /\ UNCHANGED <<storage, crashed>>

DoCloseEncoder(r) ==
  /\ At(r, "closeEncoder")
  /\ \E ok \in BOOLEAN :
       frame' = Put(r, CloseEncoder(frame[r], ok))
  /\ UNCHANGED <<storage, crashed>>

DoRespond(r) ==
  /\ At(r, "respond")
  /\ frame' = Put(r, Respond(frame[r]))
  /\ UNCHANGED <<storage, crashed>>

\* the index expression el[0] on an empty list panics; the handler has no
\* recover, so either the host recovers the panic and only this request
\* ends, or the process exits and every request in flight ends with it
Panicked(fr) == [fr EXCEPT !.pc = "done", !.ret = PanicRet]

Aborted(fr) ==
  IF fr.pc \in {"idle", "done"} THEN fr ELSE [fr EXCEPT !.pc = "done", !.ret = AbortedRet]

Recover(r) ==
  /\ At(r, "panic")
  /\ frame' = Put(r, Panicked(frame[r]))
  /\ UNCHANGED <<storage, crashed>>

Crash(r) ==
  /\ At(r, "panic")
  /\ frame' = [q \in Reqs |-> IF q = r THEN Panicked(frame[q]) ELSE Aborted(frame[q])]
  /\ crashed' = TRUE
  /\ UNCHANGED storage

Handle(r) ==
  \/ DoDecodePlaintext(r)
  \/ DoResolveAlgorithm(r)
  \/ DoCheckFormat(r)
  \/ DoCheckRecipientKey(r)
  \/ DoParseKeyRing(r)
  \/ DoSelectRecipient(r)
  \/ DoLookupKey(r)
  \/ DoDeriveEntity(r)
  \/ DoNewEncoder(r)
  \/ DoEncrypt(r)
  \/ DoWritePlaintext(r)
  \/ DoCloseW(r)
  \/ DoCloseEncoder(r)
  \/ DoRespond(r)
  \/ Recover(r)
  \/ Crash(r)

\* one request at a time, over every combination of field values
Next ==
  \/ Dispatch(1, Requests)
  \/ Handle(1)

Spec == Init /\ [][Next]_vars

\* requests in flight together
NextConcurrent ==
  \/ \E r \in Reqs : Dispatch(r, ConcurrentRequests)
  \/ \E r \in Reqs : Handle(r)

SpecConcurrent == Init /\ [][NextConcurrent]_vars

(***************************************************************************)
(* What the claims speak about: the request as sent, the calls made, the   *)
(* outcome.                                                                *)
(***************************************************************************)
Last(s) == s[Len(s)]

Called(fr, call) == \E i \in 1..Len(fr.log) : fr.log[i] = call

IsPrefix(s, t) == Len(s) <= Len(t) /\ SubSeq(t, 1, Len(s)) = s

Started(r) == frame[r].pc # "idle"

Finished(r) == frame[r].pc = "done"

\* the request as sent
PlaintextDecodes(data) ==
  LET p == IF data.plaintext.present THEN data.plaintext.val ELSE ""
  IN  p \in {"", "aGVsbG8=", "aGk="}

RequestedAlgorithm(data) ==
  IF data.urlalgorithm.present /\ data.urlalgorithm.val # "" THEN data.urlalgorithm.val
  ELSE IF data.algorithm.present THEN data.algorithm.val
  ELSE "sha2-256"

AlgorithmSupported(data) == RequestedAlgorithm(data) \in AlgorithmNames

RequestedFormat(data) == IF data.format.present THEN data.format.val ELSE "base64"

FormatSupported(data) == RequestedFormat(data) \in {"base64", "ascii-armor"}

RecipientEmpty(data) == ~data.recipient_key.present \/ data.recipient_key.val = EmptyText

\* the keys of a recipient text that is a well-formed key block
IsKeyBlock(text) == text.block \in {"PGP PUBLIC KEY BLOCK", "PGP PRIVATE KEY BLOCK"}

KeysOf(text) == SelectSeq(text.packets, LAMBDA p : p # "bad")

\* malformed or empty keyring
KeyringUnusable(data) ==
  ~RecipientEmpty(data)
    /\ (~IsKeyBlock(data.recipient_key.val) \/ KeysOf(data.recipient_key.val) = <<>>)

\* the calls that touch storage, key material or the crypto library
StorageCalls == {"key"}

CryptoCalls ==
  {"ReadArmoredKeyRing", "el[0]", "entity", "armor.Encode", "base64.NewEncoder",
   "openpgp.Encrypt", "w.Write", "w.Close", "ciphertextEncoder.Close"}

NoneCalled(fr, calls) == \A i \in 1..Len(fr.log) : fr.log[i] \notin calls

\* the outcomes named by the error taxonomy
UnsupportedAlgorithm(algorithm) ==
  Return(ErrorResponse(<<"unsupported algorithm", algorithm>>), "nil")

UnsupportedFormat(format) ==
  Return(ErrorResponse(<<"unsupported encoding format", format>>), "nil")

MissingRecipient == Return(ErrorResponse(<<"recipient_key not exist">>), ErrInvalidRequest)

KeyNotFound == Return(ErrorResponse(<<"key not found">>), ErrInvalidRequest)

IsInvalidRecipientKey(ret) ==
  ret.kind = "returned" /\ ret.resp.isError /\ ret.err = ErrInvalidRequest

HasCiphertext(ret) == ret.kind = "returned" /\ ~ret.resp.nil /\ ~ret.resp.isError

(***************************************************************************)
(* C1                                                                      *)
(***************************************************************************)
\* C1 as stated: every finished request whose resolved algorithm is not one
\* of the four names has returned the UnsupportedAlgorithm error response
\* and has made no storage or crypto call.
C1_AsStated ==
  \A r \in Reqs :
    (Finished(r) /\ ~AlgorithmSupported(frame[r].data)) =>
      /\ frame[r].ret = UnsupportedAlgorithm(RequestedAlgorithm(frame[r].data))
      /\ NoneCalled(frame[r], StorageCalls \cup CryptoCalls)

\* C1 amended: a request whose resolved algorithm is not one of the four
\* names never makes a storage or crypto call, and when its plaintext
\* decodes as base64 it ends with the UnsupportedAlgorithm error response.
C1_UnsupportedAlgorithm ==
  \A r \in Reqs :
    (Started(r) /\ ~AlgorithmSupported(frame[r].data)) =>
      /\ NoneCalled(frame[r], StorageCalls \cup CryptoCalls)
      /\ frame[r].pc \in {"decode", "algorithm", "done"}
      /\ (Finished(r) /\ PlaintextDecodes(frame[r].data)) =>
           frame[r].ret = UnsupportedAlgorithm(RequestedAlgorithm(frame[r].data))

C1_Witness ==
  \E r \in Reqs :
    /\ Finished(r)
    /\ ~AlgorithmSupported(frame[r].data)
    /\ frame[r].data.urlalgorithm = Present("md5")
    /\ frame[r].data.algorithm = Present("sha2-256")
    /\ Last(frame[r].log) = "switch algorithm"
    /\ frame[r].ret = UnsupportedAlgorithm("md5")

(***************************************************************************)
(* C2                                                                      *)
(***************************************************************************)
\* C2 as stated: every finished request with an empty recipient_key has
\* ended with MissingRecipient, whatever the other fields, and no crypto
\* call was made.
C2_AsStated ==
  \A r \in Reqs :
    (Finished(r) /\ RecipientEmpty(frame[r].data)) =>
      /\ frame[r].ret = MissingRecipient
      /\ NoneCalled(frame[r], CryptoCalls)

\* C2 amended: a request with an empty recipient_key never makes a crypto
\* call, and when its plaintext decodes and its algorithm and format are
\* supported it ends with MissingRecipient.
C2_MissingRecipient ==
  \A r \in Reqs :
    (Started(r) /\ RecipientEmpty(frame[r].data)) =>
      /\ NoneCalled(frame[r], CryptoCalls \cup StorageCalls)
      /\ (/\ Finished(r)
          /\ PlaintextDecodes(frame[r].data)
          /\ AlgorithmSupported(frame[r].data)
          /\ FormatSupported(frame[r].data)) => frame[r].ret = MissingRecipient

C2_Witness ==
  \E r \in Reqs :
    /\ Finished(r)
    /\ RecipientEmpty(frame[r].data)
    /\ Last(frame[r].log) = "recipient_key"
    /\ frame[r].ret = MissingRecipient

(***************************************************************************)
(* C3                                                                      *)
(***************************************************************************)
\* C3 as stated: every finished request whose format is neither base64 nor
\* ascii-armor has ended with UnsupportedFormat, whatever the other fields.
C3_AsStated ==
  \A r \in Reqs :
    (Finished(r) /\ ~FormatSupported(frame[r].data)) =>
      frame[r].ret = UnsupportedFormat(RequestedFormat(frame[r].data))

\* C3 amended: a request whose format is neither base64 nor ascii-armor,
\* whose plaintext decodes and whose algorithm is supported ends with
\* UnsupportedFormat, whatever its recipient_key and name; no request with
\* such a format gets past the format check.
C3_UnsupportedFormat ==
  \A r \in Reqs :
    (Started(r) /\ ~FormatSupported(frame[r].data)) =>
      /\ frame[r].pc \in {"decode", "algorithm", "format", "done"}
      /\ (/\ Finished(r)
          /\ PlaintextDecodes(frame[r].data)
          /\ AlgorithmSupported(frame[r].data)) =>
            frame[r].ret = UnsupportedFormat(RequestedFormat(frame[r].data))

C3_Witness ==
  \E r \in Reqs :
    /\ Finished(r)
    /\ frame[r].data.format = Present("hex")
    /\ RecipientEmpty(frame[r].data)
    /\ frame[r].data.name = Present("nobody")
    /\ frame[r].ret = UnsupportedFormat("hex")

(***************************************************************************)
(* C4                                                                      *)
(***************************************************************************)
\* the hash of an algorithm name; "0" (no hash) for any other string
HashOf(algorithm) ==
  CASE algorithm = "sha2-224" -> "SHA224"
    [] algorithm = "sha2-256" -> "SHA256"
    [] algorithm = "sha2-384" -> "SHA384"
    [] algorithm = "sha2-512" -> "SHA512"
    [] OTHER -> "0"

\* the hash named in the signature of a ciphertext
SignatureHashes(ciphertext) ==
  {ciphertext[i][3] : i \in {j \in 1..Len(ciphertext) : ciphertext[j][1] = "sig"}}

\* C4: once the algorithm switch has run, the configured hash is the hash of
\* urlalgorithm when that is non-empty, else of the body algorithm, else
\* SHA256, under the mapping sha2-224 -> SHA224, sha2-256 -> SHA256,
\* sha2-384 -> SHA384, sha2-512 -> SHA512; a string outside the mapping
\* configures no hash and ends the request with UnsupportedAlgorithm; the
\* cryptographic writer and the returned signature use the configured hash.
C4_HashResolution ==
  \A r \in Reqs :
    LET fr == frame[r]
        algorithm == RequestedAlgorithm(fr.data)
    IN  Called(fr, "switch algorithm") =>
          /\ fr.algorithm = algorithm
          /\ fr.config = HashOf(algorithm)
          /\ (algorithm \notin AlgorithmNames) =>
               fr.ret = UnsupportedAlgorithm(algorithm)
          /\ (fr.w.state # "nil") => fr.w.meta[2] = HashOf(algorithm)
          /\ HasCiphertext(fr.ret) =>
               SignatureHashes(fr.ret.resp.data) = {HashOf(algorithm)}

C4_Witness ==
  \E r \in Reqs :
    /\ Finished(r)
    /\ frame[r].data.urlalgorithm = Present("sha2-224")
    /\ frame[r].data.algorithm = Present("sha2-512")
    /\ HasCiphertext(frame[r].ret)
    /\ SignatureHashes(frame[r].ret.resp.data) = {"SHA224"}

(***************************************************************************)
(* C5                                                                      *)
(***************************************************************************)
\* C5: a finished request that reached the keyring parse has the first key
\* of the keyring as its only recipient when it went on, has ended with the
\* InvalidRecipientKey error response when the keyring is empty or
\* malformed, has not indexed an empty list and has not panicked.
C5_FirstEntityOrInvalidRecipientKey ==
  \A r \in Reqs :
    LET fr == frame[r]
        text == fr.data.recipient_key.val
    IN  (Finished(r) /\ Called(fr, "ReadArmoredKeyRing")) =>
          /\ fr.ret.kind # "panicked"
          /\ KeyringUnusable(fr.data) =>
               (IsInvalidRecipientKey(fr.ret) /\ ~Called(fr, "el[0]"))
          /\ ~KeyringUnusable(fr.data) =>
               (Called(fr, "el[0]") /\ fr.recipientKeyList = <<KeysOf(text)[1]>>)

(***************************************************************************)
(* C6                                                                      *)
(***************************************************************************)
FieldsValid(data) ==
  /\ PlaintextDecodes(data)
  /\ AlgorithmSupported(data)
  /\ FormatSupported(data)
  /\ ~RecipientEmpty(data)
  /\ ~KeyringUnusable(data)

\* the storage read of the request failed
StorageFailed(fr) == fr.pc = "done" /\ Last(fr.log) = "key" /\ fr.err # "nil"

\* C6: for a request with valid fields whose key lookup has run, a name
\* without a stored record ends with the KeyNotFound error response, a failed
\* storage read ends with an error and no response, and a stored record
\* whose entity derivation fails ends with an error and no response; in all
\* three openpgp.Encrypt is not called and no ciphertext is returned.
C6_KeyLookupCases ==
  \A r \in Reqs :
    LET fr == frame[r]
        name == fr.data.name.val
        absent == fr.err = "nil" /\ name \notin DOMAIN storage
        underivable == Called(fr, "entity") /\ storage[name].malformed
    IN  (FieldsValid(fr.data) /\ Called(fr, "key")) =>
          /\ absent => fr.ret = KeyNotFound
          /\ StorageFailed(fr) =>
               (fr.ret.kind = "returned" /\ fr.ret.resp.nil /\ fr.ret.err = fr.err
                  /\ fr.ret # KeyNotFound)
          /\ underivable =>
               (fr.ret.kind = "returned" /\ fr.ret.resp.nil /\ fr.ret.err # "nil")
          /\ (absent \/ StorageFailed(fr) \/ underivable) =>
               /\ Finished(r)
               /\ ~Called(fr, "openpgp.Encrypt")
               /\ ~HasCiphertext(fr.ret)

C6_Witness ==
  \E r \in Reqs :
    /\ FieldsValid(frame[r].data)
    /\ frame[r].data.name.val \in DOMAIN storage
    /\ StorageFailed(frame[r])
    /\ frame[r].ret = Return(NilResp, "storage unavailable")

(***************************************************************************)
(* C7                                                                      *)
(***************************************************************************)
\* the calls of a successful encryption from the creation of the encoding
\* writer to the read of the buffer
WriterCalls(format) ==
  <<IF format = "ascii-armor" THEN "armor.Encode" ELSE "base64.NewEncoder",
    "openpgp.Encrypt", "w.Write", "w.Close", "ciphertextEncoder.Close",
    "ciphertext.String">>

\* the complete ciphertext of a request
Envelope(format, recipient, plaintext, signer, hash) ==
  (IF format = "ascii-armor" THEN <<ArmorHeader>> ELSE <<>>)
    \o <<<<"pkesk", recipient>>, <<"data", plaintext>>, <<"sig", signer, hash>>>>
    \o (IF format = "ascii-armor" THEN <<ArmorFooter>> ELSE <<>>)

\* C7: a returned ciphertext was produced by exactly these calls in this
\* order: encoding writer created, cryptographic writer created, plaintext
\* written, cryptographic writer closed, encoding writer closed, buffer
\* read; the buffer is never read while a writer is open, the encoding
\* writer exists whenever the cryptographic writer does and is not closed
\* before it, and the returned ciphertext is complete.
C7_CloseBeforeRead ==
  \A r \in Reqs :
    LET fr == frame[r]
        n == Len(fr.log)
    IN  /\ HasCiphertext(fr.ret) =>
             /\ n >= 6
             /\ SubSeq(fr.log, n - 5, n) = WriterCalls(RequestedFormat(fr.data))
             /\ fr.ret.resp.data =
                  Envelope(RequestedFormat(fr.data),
                           KeysOf(fr.data.recipient_key.val)[1],
                           fr.plaintext, fr.data.name.val,
                           HashOf(RequestedAlgorithm(fr.data)))
        /\ Called(fr, "ciphertext.String") =>
             (fr.w.state = "closed" /\ fr.ciphertextEncoder.state = "closed")
        /\ (fr.w.state # "nil") => fr.ciphertextEncoder.state # "nil"
        /\ (fr.ciphertextEncoder.state = "closed") => fr.w.state = "closed"

C7_Witness ==
  \E r \in Reqs :
    /\ HasCiphertext(frame[r].ret)
    /\ frame[r].format = "ascii-armor"
    /\ frame[r].ret.resp.data[1] = ArmorHeader
    /\ Last(frame[r].ret.resp.data) = ArmorFooter
    /\ Last(frame[r].log) = "ciphertext.String"

(***************************************************************************)
(* C8                                                                      *)
(***************************************************************************)
FallibleWriterCalls ==
  {"armor.Encode", "openpgp.Encrypt", "w.Write", "w.Close", "ciphertextEncoder.Close"}

\* creating a writer, writing or closing failed
WriterFailed(fr) ==
  fr.pc = "done" /\ Last(fr.log) \in FallibleWriterCalls /\ fr.err # "nil"

\* C8: when creating a writer, writing the plaintext or closing a writer
\* fails, the request ends with that error and no response; a response with
\* a ciphertext is returned only when no call left an error and both writers
\* were created and closed.
C8_FailureMeansNoCiphertext ==
  \A r \in Reqs :
    LET fr == frame[r]
    IN  /\ WriterFailed(fr) => fr.ret = Return(NilResp, fr.err)
        /\ HasCiphertext(fr.ret) =>
             /\ fr.err = "nil"
             /\ \A c \in FallibleWriterCalls \ {"armor.Encode"} : Called(fr, c)
             /\ fr.w.state = "closed"
             /\ fr.ciphertextEncoder.state = "closed"

C8_Witness ==
  \E r \in Reqs :
    /\ WriterFailed(frame[r])
    /\ Last(frame[r].log) = "ciphertextEncoder.Close"
    /\ frame[r].w.state = "closed"
    /\ frame[r].ret = Return(NilResp, "close encoder")

(***************************************************************************)
(* C9                                                                      *)
(***************************************************************************)
\* the calls the environment can fail, by the position of the handler
FaultPoints == {"none", "key", "encoder", "encrypt", "write", "closeW", "closeEncoder"}

\* one statement group of a request that runs alone
StepAlone(fr, store, fault) ==
  CASE fr.pc = "decode" -> DecodePlaintext(fr)
    [] fr.pc = "algorithm" -> ResolveAlgorithm(fr)
    [] fr.pc = "format" -> CheckFormat(fr)
    [] fr.pc = "recipient" -> CheckRecipientKey(fr)
    [] fr.pc = "parse" -> ParseKeyRing(fr)
    [] fr.pc = "select" -> SelectRecipient(fr)
    [] fr.pc = "key" -> LookupKey(fr, store, fault # "key")
    [] fr.pc = "entity" -> DeriveEntity(fr)
    [] fr.pc = "encoder" -> NewEncoder(fr, fault # "encoder")
    [] fr.pc = "encrypt" -> Encrypt(fr, fault # "encrypt")
    [] fr.pc = "write" -> WritePlaintext(fr, fault # "write")
    [] fr.pc = "closeW" -> CloseW(fr, fault # "closeW")
    [] fr.pc = "closeEncoder" -> CloseEncoder(fr, fault # "closeEncoder")
    [] fr.pc = "respond" -> Respond(fr)
    [] fr.pc = "panic" -> Panicked(fr)
    [] OTHER -> fr

RECURSIVE RunAlone(_, _, _)
RunAlone(fr, store, fault) ==
  IF fr.pc \in {"idle", "done"} THEN fr
  ELSE RunAlone(StepAlone(fr, store, fault), store, fault)

\* the frames a request can end with when it is the only request
AloneOutcomes(data) ==
  {RunAlone([IdleFrame EXCEPT !.pc = "decode", !.data = data], InitStorage, fault) :
     fault \in FaultPoints}

OthersUseOtherNames(r) ==
  \A q \in Reqs \ {r} : Started(q) => frame[q].data.name # frame[r].data.name

\* C9: a finished request that ran together with requests for other key
\* names ends as it can end alone (same outcome, hash, format, recipient and
\* sender key), and the stored key records are unchanged.
C9_ConcurrentAsAlone ==
  /\ storage = InitStorage
  /\ \A r \in Reqs :
       (Finished(r) /\ OthersUseOtherNames(r)) =>
          \E alone \in AloneOutcomes(frame[r].data) :
            /\ frame[r].ret = alone.ret
            /\ frame[r].config = alone.config
            /\ frame[r].format = alone.format
            /\ frame[r].recipientKeyList = alone.recipientKeyList
            /\ frame[r].entity = alone.entity

(***************************************************************************)
(* C10                                                                     *)
(***************************************************************************)
CheckOrder ==
  <<"DecodeString", "switch algorithm", "switch format", "recipient_key",
    "ReadArmoredKeyRing", "key", "entity">>

ChecksRun(fr) ==
  SelectSeq(fr.log, LAMBDA c : \E i \in 1..Len(CheckOrder) : CheckOrder[i] = c)

\* the position in CheckOrder of the first check the request fails, 0 when
\* it passes them all
FirstFailing(fr) ==
  LET data == fr.data
      name == data.name.val
  IN  CASE ~PlaintextDecodes(data) -> 1
        [] ~AlgorithmSupported(data) -> 2
        [] ~FormatSupported(data) -> 3
        [] RecipientEmpty(data) -> 4
        [] KeyringUnusable(data) -> 5
        [] name \notin DOMAIN storage \/ StorageFailed(fr) -> 6
        [] storage[name].malformed -> 7
        [] OTHER -> 0

\* the error of a failing check
ErrorOf(check, fr) ==
  LET ret == fr.ret
  IN  CASE check = 1 -> ret.kind = "returned" /\ ret.resp.isError
                          /\ ret.resp.data[1] = "unable to decode plaintext as base64"
        [] check = 2 -> ret = UnsupportedAlgorithm(RequestedAlgorithm(fr.data))
        [] check = 3 -> ret = UnsupportedFormat(RequestedFormat(fr.data))
        [] check = 4 -> ret = MissingRecipient
        [] check = 5 -> IsInvalidRecipientKey(ret)
        [] check = 6 -> ret = KeyNotFound \/ (StorageFailed(fr) /\ ret = Return(NilResp, fr.err))
        [] check = 7 -> ret.kind = "returned" /\ ret.resp.nil /\ ret.err # "nil"
        [] OTHER -> FALSE

\* C10: a finished request has exactly one outcome, an error or a
\* ciphertext response; its checks ran in the fixed order; when a check
\* fails, the outcome is the error of the first failing check and nothing
\* was called after that check.
C10_FirstFailingCheckDecides ==
  \A r \in Reqs :
    LET fr == frame[r]
        first == FirstFailing(fr)
    IN  Finished(r) =>
          /\ fr.ret.kind = "returned"
          /\ HasCiphertext(fr.ret) # (fr.ret.resp.isError \/ fr.ret.err # "nil")
          /\ IsPrefix(ChecksRun(fr), CheckOrder)
          /\ (first = 0) => ChecksRun(fr) = CheckOrder
          /\ (first # 0) =>
               /\ ChecksRun(fr) = SubSeq(CheckOrder, 1, first)
               /\ Last(fr.log) = CheckOrder[first]
               /\ ErrorOf(first, fr)

====
